---- MODULE Spec2Model ----
(***************************************************************************)
(* Model of the Hyperion Python SDK client                                 *)
(* (sdk/python/hyperion_sdk/client.py) and of the mock server of its unit  *)
(* tests (sdk/python/tests/test_client.py).                                *)
(*                                                                         *)
(* Text is a sequence of tokens (strings): response and request bodies are *)
(* sequences of one-character tokens, so that encoding, decoding, JSON     *)
(* serialisation and JSON parsing are computed character by character.     *)
(* Bytes are integers.  Python values are tagged records [kind, val].      *)
(***************************************************************************)
EXTENDS Integers, Sequences, FiniteSets, TLC

VARIABLES client, pc, call, frame, wire, events, outcome

vars == <<client, pc, call, frame, wire, events, outcome>>

(***************************************************************************)
(* Bounds of the model.                                                    *)
(***************************************************************************)
\* longest response body enumerated over BodyBytes
MaxBodyLen == 2
\* how many redirect responses the server gives to one call
MaxRedirects == 2

(***************************************************************************)
(* Generic helpers.                                                        *)
(***************************************************************************)
Range(s) == {s[i] : i \in DOMAIN s}

RECURSIVE SeqsUpTo(_, _)
SeqsUpTo(S, n) ==
    IF n = 0 THEN {<<>>}
    ELSE LET shorter == SeqsUpTo(S, n - 1)
         IN  shorter \cup {Append(s, x) : s \in {q \in shorter : Len(q) = n - 1}, x \in S}

\* x occurs in s as a contiguous run of tokens
IsInfix(x, s) ==
    \E i \in 0..(Len(s) - Len(x)) : \A j \in 1..Len(x) : s[i + j] = x[j]

(***************************************************************************)
(* Characters and bytes: the ASCII table of the characters the model uses. *)
(***************************************************************************)
AsciiChars ==
    << " ", "\"", ",", "-", ":", "[", "]", "_", "{", "}",
       "0", "1", "2", "3", "4", "5", "6", "7", "8", "9",
       "a", "b", "c", "d", "e", "f", "g", "h", "i", "j", "k", "l", "m",
       "n", "o", "p", "q", "r", "s", "t", "u", "v", "w", "x", "y", "z",
       "C", "D", "E", "S", "U" >>

AsciiCodes ==
    << 32, 34, 44, 45, 58, 91, 93, 95, 123, 125,
       48, 49, 50, 51, 52, 53, 54, 55, 56, 57,
       97, 98, 99, 100, 101, 102, 103, 104, 105, 106, 107, 108, 109,
       110, 111, 112, 113, 114, 115, 116, 117, 118, 119, 120, 121, 122,
       67, 68, 69, 83, 85 >>

Ord(c) == AsciiCodes[CHOOSE i \in DOMAIN AsciiChars : AsciiChars[i] = c]

Chr(b) == AsciiChars[CHOOSE i \in DOMAIN AsciiCodes : AsciiCodes[i] = b]

Digits == <<"0", "1", "2", "3", "4", "5", "6", "7", "8", "9">>

IsDigit(c) == c \in Range(Digits)

DigitValue(c) == (CHOOSE i \in DOMAIN Digits : Digits[i] = c) - 1

\* str.encode("utf-8") of ASCII text (json.dumps escapes everything else)
EncodeUtf8(text) == [i \in DOMAIN text |-> Ord(text[i])]

\* the codecs the interpreter knows, among the charsets of the model
KnownCodecs == {"utf-8", "iso-8859-1"}

DecodeOk(text) == [error |-> "", text |-> text]

DecodeError(e) == [error |-> e, text |-> <<>>]

\* bytes.decode(charset).  The bytes of the model are ASCII or 255, which
\* is never valid in UTF-8 and is U+00FF in ISO-8859-1.  CPython returns the
\* empty string for empty input before it looks the codec up.
Decode(bytes, charset) ==
    IF bytes = <<>> THEN DecodeOk(<<>>)
    ELSE IF charset \notin KnownCodecs THEN DecodeError("LookupError")
    ELSE IF charset = "utf-8" /\ \E i \in DOMAIN bytes : bytes[i] >= 128
         THEN DecodeError("UnicodeDecodeError")
    ELSE DecodeOk([i \in DOMAIN bytes |->
                     IF bytes[i] >= 128 THEN "y-diaeresis" ELSE Chr(bytes[i])])

(***************************************************************************)
(* Python values.                                                          *)
(***************************************************************************)
PyNone == [kind |-> "NoneType", val |-> 0]

PyInt(n) == [kind |-> "int", val |-> n]

PyBool(b) == [kind |-> "bool", val |-> b]

PyStr(s) == [kind |-> "str", val |-> s]

PyList(xs) == [kind |-> "list", val |-> xs]

\* a dict is its items in insertion order, each [key, value], keys distinct
PyDict(items) == [kind |-> "dict", val |-> items]

EmptyDict == PyDict(<<>>)

Item(k, v) == [key |-> k, value |-> v]

HasKey(d, k) == \E i \in DOMAIN d.val : d.val[i].key = k

\* d[k], for a key d has
DictGet(d, k) == d.val[CHOOSE i \in DOMAIN d.val : d.val[i].key = k].value

\* d.get(k, default)
DictGetDefault(d, k, default) == IF HasKey(d, k) THEN DictGet(d, k) ELSE default

\* d[k] = v: a new key is appended, an old one keeps its place
DictSet(d, k, v) ==
    IF HasKey(d, k)
    THEN PyDict([i \in DOMAIN d.val |->
                   IF d.val[i].key = k THEN Item(k, v) ELSE d.val[i]])
    ELSE PyDict(Append(d.val, Item(k, v)))

(***************************************************************************)
(* json.dumps with the default separators, for the values of the model.    *)
(***************************************************************************)
RECURSIVE NatToChars(_)
NatToChars(n) ==
    IF n < 10 THEN <<Digits[n + 1]>>
    ELSE Append(NatToChars(n \div 10), Digits[(n % 10) + 1])

\* str(n) of an integer
IntToChars(n) == IF n < 0 THEN <<"-">> \o NatToChars(0 - n) ELSE NatToChars(n)

RECURSIVE json_dumps(_), DumpElements(_), DumpItems(_)
DumpElements(xs) ==
    IF xs = <<>> THEN <<>>
    ELSE json_dumps(Head(xs))
         \o (IF Len(xs) > 1 THEN <<",", " ">> \o DumpElements(Tail(xs)) ELSE <<>>)

DumpItems(items) ==
    IF items = <<>> THEN <<>>
    ELSE <<"\"">> \o Head(items).key \o <<"\"", ":", " ">> \o json_dumps(Head(items).value)
         \o (IF Len(items) > 1 THEN <<",", " ">> \o DumpItems(Tail(items)) ELSE <<>>)

json_dumps(v) ==
    CASE v.kind = "NoneType" -> <<"n", "u", "l", "l">>
      [] v.kind = "bool" -> IF v.val THEN <<"t", "r", "u", "e">> ELSE <<"f", "a", "l", "s", "e">>
      [] v.kind = "int" -> IntToChars(v.val)
      [] v.kind = "str" -> <<"\"">> \o v.val \o <<"\"">>
      [] v.kind = "list" -> <<"[">> \o DumpElements(v.val) \o <<"]">>
      [] v.kind = "dict" -> <<"{">> \o DumpItems(v.val) \o <<"}">>

(***************************************************************************)
(* json.loads: the scanner of the json package, on text without escapes,   *)
(* fractions or exponents (the bodies of the model hold none).  A parse    *)
(* result is [ok, val, end], end being the index after what was read.      *)
(***************************************************************************)
ParseFail == [ok |-> FALSE, val |-> PyNone, end |-> 0]

ParseOk(v, e) == [ok |-> TRUE, val |-> v, end |-> e]

\* s[i:i+1]
CharAt(s, i) == IF i \in DOMAIN s THEN s[i] ELSE ""

RECURSIVE SkipWs(_, _)
SkipWs(s, i) == IF CharAt(s, i) = " " THEN SkipWs(s, i + 1) ELSE i

\* py_scanstring from the character after the opening quote
ScanString(s, i) ==
    LET closes == {j \in i..Len(s) : s[j] = "\""}
    IN  IF closes = {} THEN ParseFail
        ELSE LET j == CHOOSE x \in closes : \A y \in closes : x <= y
             IN  ParseOk(PyStr(SubSeq(s, i, j - 1)), j + 1)

RECURSIVE DigitsEnd(_, _)
DigitsEnd(s, i) == IF IsDigit(CharAt(s, i)) THEN DigitsEnd(s, i + 1) ELSE i

RECURSIVE ToNat(_)
ToNat(ds) ==
    IF ds = <<>> THEN 0
    ELSE 10 * ToNat(SubSeq(ds, 1, Len(ds) - 1)) + DigitValue(ds[Len(ds)])

\* NUMBER_RE: -?(0|[1-9][0-9]*)
ScanNumber(s, i) ==
    LET neg == CharAt(s, i) = "-"
        j == IF neg THEN i + 1 ELSE i
    IN  IF ~IsDigit(CharAt(s, j)) THEN ParseFail
        ELSE IF s[j] = "0" THEN ParseOk(PyInt(0), j + 1)
        ELSE LET e == DigitsEnd(s, j)
                 n == ToNat(SubSeq(s, j, e - 1))
             IN  ParseOk(PyInt(IF neg THEN 0 - n ELSE n), e)

ScanLiteral(s, i, word, v) ==
    IF i + Len(word) - 1 <= Len(s) /\ SubSeq(s, i, i + Len(word) - 1) = word
    THEN ParseOk(v, i + Len(word))
    ELSE ParseFail

RECURSIVE DictFromPairs(_)
\* dict(pairs): a repeated key keeps its first place and takes the last value
DictFromPairs(pairs) ==
    IF pairs = <<>> THEN EmptyDict
    ELSE LET last == pairs[Len(pairs)]
         IN  DictSet(DictFromPairs(SubSeq(pairs, 1, Len(pairs) - 1)), last.key, last.value)

RECURSIVE ScanOnce(_, _), ParseMembers(_, _, _), ParseElements(_, _, _)
\* JSONObject's loop, i at the opening quote of a key
ParseMembers(s, i, pairs) ==
    LET k == ScanString(s, i + 1)
    IN  IF ~k.ok THEN ParseFail
        ELSE LET c == SkipWs(s, k.end)
             IN  IF CharAt(s, c) # ":" THEN ParseFail
                 ELSE LET v == ScanOnce(s, SkipWs(s, c + 1))
                      IN  IF ~v.ok THEN ParseFail
                          ELSE LET d == SkipWs(s, v.end)
                                   acc == Append(pairs, Item(k.val.val, v.val))
                               IN  IF CharAt(s, d) = "}" THEN ParseOk(DictFromPairs(acc), d + 1)
                                   ELSE IF CharAt(s, d) # "," THEN ParseFail
                                   ELSE LET n == SkipWs(s, d + 1)
                                        IN  IF CharAt(s, n) # "\"" THEN ParseFail
                                            ELSE ParseMembers(s, n, acc)

\* JSONArray's loop, i at the first character of an element
ParseElements(s, i, acc) ==
    LET v == ScanOnce(s, i)
    IN  IF ~v.ok THEN ParseFail
        ELSE LET d == SkipWs(s, v.end)
                 xs == Append(acc, v.val)
             IN  IF CharAt(s, d) = "]" THEN ParseOk(PyList(xs), d + 1)
                 ELSE IF CharAt(s, d) # "," THEN ParseFail
                 ELSE ParseElements(s, SkipWs(s, d + 1), xs)

\* JSONObject, i after the opening brace
ParseObject(s, i) ==
    LET j == SkipWs(s, i)
    IN  IF CharAt(s, j) = "}" THEN ParseOk(EmptyDict, j + 1)
        ELSE IF CharAt(s, j) # "\"" THEN ParseFail
        ELSE ParseMembers(s, j, <<>>)

\* JSONArray, i after the opening bracket
ParseArray(s, i) ==
    LET j == SkipWs(s, i)
    IN  IF CharAt(s, j) = "]" THEN ParseOk(PyList(<<>>), j + 1)
        ELSE ParseElements(s, j, <<>>)

\* scan_once
ScanOnce(s, i) ==
    LET c == CharAt(s, i)
    IN  CASE c = "\"" -> ScanString(s, i + 1)
          [] c = "{" -> ParseObject(s, i + 1)
          [] c = "[" -> ParseArray(s, i + 1)
          [] c = "n" -> ScanLiteral(s, i, <<"n", "u", "l", "l">>, PyNone)
          [] c = "t" -> ScanLiteral(s, i, <<"t", "r", "u", "e">>, PyBool(TRUE))
          [] c = "f" -> ScanLiteral(s, i, <<"f", "a", "l", "s", "e">>, PyBool(FALSE))
          [] OTHER -> ScanNumber(s, i)

\* json.loads(s): one value, white space around it, nothing else
json_loads(s) ==
    LET r == ScanOnce(s, SkipWs(s, 1))
    IN  IF ~r.ok THEN ParseFail
        ELSE IF SkipWs(s, r.end) # Len(s) + 1 THEN ParseFail
        ELSE r

(***************************************************************************)
(* Optional values: None is the empty set, a value v is {v}.               *)
(***************************************************************************)
None == {}

Some(v) == {v}

The(o) == CHOOSE v \in o : TRUE

\* truth value of an Optional[str]: None and "" are false
Truthy(o) == o # None /\ The(o) # ""

RECURSIVE rstrip(_, _)
\* str.rstrip(c) on a sequence of tokens
rstrip(s, c) ==
    IF s # <<>> /\ s[Len(s)] = c THEN rstrip(SubSeq(s, 1, Len(s) - 1), c) ELSE s

(***************************************************************************)
(* Requests, responses, transport failures and outcomes.                   *)
(***************************************************************************)
Header(n, v) == [name |-> n, value |-> v]

HeaderNames(req) == {h.name : h \in req.headers}

HeaderValue(req, n) == (CHOOSE h \in req.headers : h.name = n).value

\* urllib.request.Request(url, data=, headers=, method=)
Request(url, data, headers, method) ==
    [method |-> method, url |-> url, headers |-> headers, data |-> data]

\* the reason phrases of the statuses of the model
ReasonPhrase(status) ==
    CASE status = 200 -> "OK"
      [] status = 201 -> "Created"
      [] status = 302 -> "Found"
      [] status = 307 -> "Temporary Redirect"
      [] status = 404 -> "Not Found"
      [] status = 500 -> "Internal Server Error"

\* a response: charset is the charset parameter of its Content-Type ("" when
\* it has none), location its Location header (<<>> when it has none)
Response(status, charset, body, location) ==
    [type |-> "response", status |-> status, reason |-> ReasonPhrase(status),
     charset |-> charset, body |-> body, location |-> location, stage |-> ""]

\* a failure of the transport: at stage "connect" nothing was sent, at stage
\* "response" the request was sent and no response came within the timeout
Failure(stage, cause) ==
    [type |-> "failure", status |-> 0, reason |-> cause,
     charset |-> "", body |-> <<>>, location |-> <<>>, stage |-> stage]

Pending == [kind |-> "pending", exc |-> "", value |-> PyNone, msg |-> <<>>]

Return(v) == [kind |-> "return", exc |-> "", value |-> v, msg |-> <<>>]

Raise(e, msg) == [kind |-> "raise", exc |-> e, value |-> PyNone, msg |-> msg]

(***************************************************************************)
(* urllib.request.urlopen, as client.py line 32 uses it: what one exchange *)
(* of the default opener gives for a request and what the transport or the *)
(* server answers.                                                         *)
(***************************************************************************)
RedirectCodes == {301, 302, 303, 307, 308}

\* HTTPRedirectHandler.redirect_request's condition
Redirectable(code, method) ==
    \/ code \in RedirectCodes /\ method \in {"GET", "HEAD"}
    \/ code \in {301, 302, 303} /\ method = "POST"

\* the opener follows resp with a new request
Follows(req, resp) ==
    /\ resp.type = "response"
    /\ resp.status \in RedirectCodes
    /\ resp.location # <<>>
    /\ Redirectable(resp.status, req.method)

\* the request that follows a redirect: no body, no content headers, GET
RedirectRequest(req, resp) ==
    Request(resp.location, None,
            {h \in req.headers : h.name \notin {"Content-Length", "Content-Type"}},
            "GET")

\* the result of one exchange
urlopen(req, ev) ==
    IF ev.type = "failure"
    THEN IF ev.stage = "connect"
         THEN [kind |-> "URLError", reason |-> ev.reason]
         ELSE [kind |-> "TimeoutError", reason |-> ev.reason]
    ELSE IF ev.status \in 200..299 THEN [kind |-> "response", response |-> ev]
    ELSE IF Follows(req, ev) THEN [kind |-> "redirect", request |-> RedirectRequest(req, ev)]
    ELSE [kind |-> "HTTPError", code |-> ev.status, reason |-> ev.reason, fp |-> Some(ev.body)]

(***************************************************************************)
(* HyperionClient._request, lines 33-42: what the call does with the       *)
(* result of urlopen.                                                      *)
(***************************************************************************)
\* lines 33-37 without the test of line 35: the empty payload goes to json.loads
ReadResponseNoEmptyTest(response) ==
    LET charset == IF response.charset # "" THEN response.charset ELSE "utf-8"
        payload == Decode(response.body, charset)
    IN  IF payload.error # "" THEN Raise(payload.error, <<>>)
        ELSE LET parsed == json_loads(payload.text)
             IN  IF parsed.ok THEN Return(parsed.val) ELSE Raise("JSONDecodeError", <<>>)

\* lines 33-37
ReadResponse(response) ==
    LET charset == IF response.charset # "" THEN response.charset ELSE "utf-8"
        payload == Decode(response.body, charset)
    IN  IF payload.error # "" THEN Raise(payload.error, <<>>)
        ELSE IF payload.text = <<>> THEN Return(EmptyDict)
        ELSE LET parsed == json_loads(payload.text)
             IN  IF parsed.ok THEN Return(parsed.val) ELSE Raise("JSONDecodeError", <<>>)

\* lines 38-40
OnHTTPError(exc, method, path) ==
    LET detail == IF exc.fp # None THEN Decode(The(exc.fp), "utf-8")
                  ELSE DecodeOk(<<exc.reason>>)
    IN  IF detail.error # "" THEN Raise(detail.error, <<>>)
        ELSE Raise("HyperionClientError",
                   <<"HTTP ">> \o IntToChars(exc.code) \o <<" for ", method, " ", path, ": ">>
                   \o detail.text)

\* lines 41-42
OnURLError(exc, url) ==
    Raise("HyperionClientError",
          <<"Unable to reach Hyperion at ">> \o url \o <<": ", exc.reason>>)

\* the exceptions that pass through _request as they are
Uncaught(exc) == Raise(exc.kind, <<exc.reason>>)

(***************************************************************************)
(* The words of the client and of the mock server, as text.                *)
(***************************************************************************)
W_replicas == <<"r", "e", "p", "l", "i", "c", "a", "s">>

W_desired_replicas == <<"d", "e", "s", "i", "r", "e", "d", "_", "r", "e", "p", "l", "i", "c", "a", "s">>

W_decision == <<"d", "e", "c", "i", "s", "i", "o", "n">>

W_scale_up == <<"s", "c", "a", "l", "e", "-", "u", "p">>

W_no_op == <<"n", "o", "-", "o", "p">>

W_plan == <<"p", "l", "a", "n">>

W_scale == <<"s", "c", "a", "l", "e">>

W_status == <<"s", "t", "a", "t", "u", "s">>

W_applied == <<"a", "p", "p", "l", "i", "e", "d">>

W_error == <<"e", "r", "r", "o", "r">>

W_not_found == <<"n", "o", "t", " ", "f", "o", "u", "n", "d">>

W_unsupported == <<"u", "n", "s", "u", "p", "p", "o", "r", "t", "e", "d">>

W_metrics == <<"m", "e", "t", "r", "i", "c", "s">>

W_active_replicas == <<"a", "c", "t", "i", "v", "e", "_", "r", "e", "p", "l", "i", "c", "a", "s">>

W_last_state == <<"l", "a", "s", "t", "_", "s", "t", "a", "t", "e">>

W_SUCCEEDED == <<"S", "U", "C", "C", "E", "E", "D", "E", "D">>

\* {k: v}
Dict1(k, v) == PyDict(<<Item(k, v)>>)

(***************************************************************************)
(* The mock server of the unit tests (tests/test_client.py, _MockHandler). *)
(***************************************************************************)
\* the path the server sees: the URL after its scheme and authority
ServerPath(req) == Tail(req.url)

\* _write_json(payload, status)
_write_json(payload, status) ==
    Response(status, "", EncodeUtf8(json_dumps(payload)), <<>>)

\* RESPONSES.get(("GET", self.path), ({"error": "not found"}, 404))
do_GET(req) ==
    LET path == ServerPath(req)
    IN  CASE path = <<"/api/monitoring">> -> _write_json(Dict1(W_metrics, PyList(<<>>)), 200)
          [] path = <<"/api/health">> -> _write_json(Dict1(W_active_replicas, PyInt(4)), 200)
          [] path = <<"/api/deploy/status">> -> _write_json(Dict1(W_last_state, PyStr(W_SUCCEEDED)), 200)
          [] OTHER -> _write_json(Dict1(W_error, PyStr(W_not_found)), 404)

\* the request bodies the server reads are the client's json.dumps output
do_POST(req) ==
    LET length == IF req.data = None THEN 0 ELSE Len(The(req.data))
        data == IF length # 0 THEN Decode(The(req.data), "utf-8").text ELSE <<"{", "}">>
        payload == json_loads(data).val
        path == ServerPath(req)
    IN  CASE path = <<"/api/autoscale/plan">> ->
               LET replicas == DictGetDefault(payload, W_replicas, PyInt(4))
               IN  _write_json(Dict1(W_decision,
                                     PyStr(IF replicas.val < 6 THEN W_scale_up ELSE W_no_op)), 200)
          [] path = <<"/api/deploy/plan">> ->
               _write_json(Dict1(W_plan,
                                 PyList(<<PyStr(W_scale),
                                          DictGetDefault(payload, W_desired_replicas, PyInt(4))>>)), 200)
          [] path = <<"/api/deploy/apply">> -> _write_json(Dict1(W_status, PyStr(W_applied)), 200)
          [] OTHER -> _write_json(Dict1(W_error, PyStr(W_unsupported)), 404)

_MockHandler(req) == IF req.method = "POST" THEN do_POST(req) ELSE do_GET(req)

(***************************************************************************)
(* The inputs of the model: client configurations, arguments, transport    *)
(* failures and server responses.                                          *)
(***************************************************************************)
\* timeout: int = 10
DefaultTimeout == 10

Authority == "http://127.0.0.1:8080"

BaseUrls == {<<Authority>>, <<Authority, "/">>, <<Authority, "/", "/">>}

ApiKeys == {None, Some(""), Some("test")}

\* HyperionClient(base_url, api_key, timeout)
HyperionClient(base_url, api_key, timeout) ==
    [base_url |-> base_url, api_key |-> api_key, timeout |-> timeout]

Clients == {HyperionClient(b, k, DefaultTimeout) : b \in BaseUrls, k \in ApiKeys}

ReplicasArgs == {None, Some(0), Some(3), Some(6), Some(0 - 1)}

ConfigArgs == {EmptyDict, Dict1(W_desired_replicas, PyInt(6))}

Failures ==
    { Failure("connect", "[Errno 111] Connection refused"),
      Failure("connect", "[Errno -2] Name or service not known"),
      Failure("connect", "timed out"),
      Failure("response", "timed out") }

\* the bytes of the enumerated bodies: { } [ ] and a byte that is not ASCII
BodyBytes == {Ord("{"), Ord("}"), Ord("["), Ord("]"), 255}

NamedBodies ==
    { EncodeUtf8(json_dumps(Dict1(<<"a">>, PyInt(1)))),
      EncodeUtf8(json_dumps(PyList(<<PyInt(1), PyNone>>))),
      EncodeUtf8(json_dumps(PyNone)),
      EncodeUtf8(json_dumps(PyInt(1))),
      EncodeUtf8(json_dumps(PyStr(<<"a">>))),
      EncodeUtf8(<<" ">>),
      EncodeUtf8(<<"n", "o">>) }

Bodies == SeqsUpTo(BodyBytes, MaxBodyLen) \cup NamedBodies

Charsets == {"", "iso-8859-1", "bogus"}

RedirectTarget == <<Authority, "/api/health">>

SuccessResponses ==
    {Response(200, c, b, <<>>) : c \in {"", "bogus"}, b \in Bodies}
    \cup {Response(s, c, b, <<>>) : s \in {200, 201}, c \in Charsets,
                                    b \in NamedBodies \cup {<<>>, <<255>>}}

RedirectResponses ==
    { Response(302, "", <<>>, RedirectTarget),
      Response(302, "", <<>>, <<>>),
      Response(307, "", <<>>, RedirectTarget) }

ErrorBodies == {<<>>, <<255>>, EncodeUtf8(<<"n", "o">>)}

ErrorResponses == {Response(s, "", b, <<>>) : s \in {404, 500}, b \in ErrorBodies}

Responses == SuccessResponses \cup RedirectResponses \cup ErrorResponses

(***************************************************************************)
(* The state.  client is the HyperionClient object; the other variables    *)
(* map each calling thread to the state of its call: pc its position,      *)
(* call the operation and its arguments, frame the locals of _request,     *)
(* wire the requests the opener issued, events what the transport and the  *)
(* server answered, outcome what the call returned or raised.              *)
(***************************************************************************)
NoCall == [op |-> "", replicas |-> None, config |-> EmptyDict]

NoFrame == [path |-> "", method |-> "", url |-> <<>>]

InitWith(threads, clients) ==
    /\ client \in clients
    /\ pc = [t \in threads |-> "idle"]
    /\ call = [t \in threads |-> NoCall]
    /\ frame = [t \in threads |-> NoFrame]
    /\ wire = [t \in threads |-> <<>>]
    /\ events = [t \in threads |-> <<>>]
    /\ outcome = [t \in threads |-> Pending]

\* _request with line 22 as "if self.api_key is not None"
_requestKeyNotNone(t, path, method, data) ==
    LET url == rstrip(client.base_url, "/") \o <<path>>
        headers == {Header("Content-Type", "application/json")}
                   \cup (IF client.api_key # None
                         THEN {Header("X-API-Key", The(client.api_key))}
                         ELSE {})
        req_data == IF data # None THEN Some(EncodeUtf8(json_dumps(The(data)))) ELSE None
        request == Request(url, req_data, headers, method)
    IN  /\ pc[t] = "idle"
        /\ pc' = [pc EXCEPT ![t] = "inflight"]
        /\ frame' = [frame EXCEPT ![t] = [path |-> path, method |-> method, url |-> url]]
        /\ wire' = [wire EXCEPT ![t] = <<request>>]
        /\ UNCHANGED <<client, events, outcome>>

\* _request with line 20 trimming the client's base address in place
_requestTrimsInPlace(t, path, method, data) ==
    LET base == rstrip(client.base_url, "/")
        url == base \o <<path>>
        headers == {Header("Content-Type", "application/json")}
                   \cup (IF Truthy(client.api_key)
                         THEN {Header("X-API-Key", The(client.api_key))}
                         ELSE {})
        req_data == IF data # None THEN Some(EncodeUtf8(json_dumps(The(data)))) ELSE None
        request == Request(url, req_data, headers, method)
    IN  /\ pc[t] = "idle"
        /\ pc' = [pc EXCEPT ![t] = "inflight"]
        /\ client' = [client EXCEPT !.base_url = base]
        /\ frame' = [frame EXCEPT ![t] = [path |-> path, method |-> method, url |-> url]]
        /\ wire' = [wire EXCEPT ![t] = <<request>>]
        /\ UNCHANGED <<events, outcome>>

\* _request, lines 20-32: builds the request and hands it to urlopen
_request(t, path, method, data) ==
    LET url == rstrip(client.base_url, "/") \o <<path>>
        headers == {Header("Content-Type", "application/json")}
                   \cup (IF Truthy(client.api_key)
                         THEN {Header("X-API-Key", The(client.api_key))}
                         ELSE {})
        req_data == IF data # None THEN Some(EncodeUtf8(json_dumps(The(data)))) ELSE None
        request == Request(url, req_data, headers, method)
    IN  /\ pc[t] = "idle"
        /\ pc' = [pc EXCEPT ![t] = "inflight"]
        /\ frame' = [frame EXCEPT ![t] = [path |-> path, method |-> method, url |-> url]]
        /\ wire' = [wire EXCEPT ![t] = <<request>>]
        /\ UNCHANGED <<client, events, outcome>>

Called(t, op, replicas, config) ==
    call' = [call EXCEPT ![t] = [op |-> op, replicas |-> replicas, config |-> config]]

get_monitoring_snapshot(t) ==
    /\ Called(t, "get_monitoring_snapshot", None, EmptyDict)
    /\ _request(t, "/api/monitoring", "GET", None)

get_health(t) ==
    /\ Called(t, "get_health", None, EmptyDict)
    /\ _request(t, "/api/health", "GET", None)

\* autoscale_plan with line 60 as "if replicas:"
autoscale_planIfReplicas(t, replicas) ==
    LET payload == IF replicas # None /\ The(replicas) # 0
                   THEN Some(Dict1(W_replicas, PyInt(The(replicas))))
                   ELSE None
    IN  /\ Called(t, "autoscale_plan", replicas, EmptyDict)
        /\ _request(t, "/api/autoscale/plan", "POST", payload)

autoscale_plan(t, replicas) ==
    LET payload == IF replicas # None THEN Some(Dict1(W_replicas, PyInt(The(replicas))))
                   ELSE None
    IN  /\ Called(t, "autoscale_plan", replicas, EmptyDict)
        /\ _request(t, "/api/autoscale/plan", "POST", payload)

deployment_plan(t, config) ==
    /\ Called(t, "deployment_plan", None, config)
    /\ _request(t, "/api/deploy/plan", "POST", Some(config))

deployment_apply(t, config) ==
    /\ Called(t, "deployment_apply", None, config)
    /\ _request(t, "/api/deploy/apply", "POST", Some(config))

deployment_status(t) ==
    /\ Called(t, "deployment_status", None, EmptyDict)
    /\ _request(t, "/api/deploy/status", "GET", None)

LastRequest(t) == wire[t][Len(wire[t])]

\* _request, lines 32-42: urlopen gets ev for the request in flight; the
\* opener follows a redirect with a new request, and the call ends otherwise
Deliver(t, ev) ==
    LET got == urlopen(LastRequest(t), ev)
    IN  /\ pc[t] = "inflight"
        /\ events' = [events EXCEPT ![t] = Append(@, ev)]
        /\ IF got.kind = "redirect"
           THEN /\ wire' = [wire EXCEPT ![t] = Append(@, got.request)]
                /\ UNCHANGED <<pc, outcome>>
           ELSE /\ pc' = [pc EXCEPT ![t] = "done"]
                /\ outcome' = [outcome EXCEPT ![t] =
                      CASE got.kind = "response" -> ReadResponse(got.response)
                        [] got.kind = "HTTPError" ->
                             OnHTTPError(got, frame[t].method, frame[t].path)
                        [] got.kind = "URLError" -> OnURLError(got, frame[t].url)
                        [] OTHER -> Uncaught(got)]
                /\ UNCHANGED wire
        /\ UNCHANGED <<client, call, frame>>

\* a transport failure answered by sending the request once more
TransportFailureRetried(t, f) ==
    /\ pc[t] = "inflight"
    /\ IF Len(wire[t]) = 1 /\ events[t] = <<>>
       THEN /\ events' = [events EXCEPT ![t] = Append(@, f)]
            /\ wire' = [wire EXCEPT ![t] = Append(@, LastRequest(t))]
            /\ UNCHANGED <<client, pc, call, frame, outcome>>
       ELSE Deliver(t, f)

\* the transport fails
TransportFailure(t, f) ==
    /\ pc[t] = "inflight"
    /\ Deliver(t, f)

\* a server answers; it redirects one call at most MaxRedirects times (the
\* opener itself gives up at the fifth redirect to one URL, which a server
\* that redirects so few times never reaches)
ServerResponse(t, resp) ==
    /\ pc[t] = "inflight"
    /\ Follows(LastRequest(t), resp) => Len(wire[t]) <= MaxRedirects
    /\ Deliver(t, resp)

\* the mock server of the tests answers
MockServerResponse(t) ==
    /\ pc[t] = "inflight"
    /\ Deliver(t, _MockHandler(LastRequest(t)))

\* the caller has the outcome: the call's own state is discarded
Finish(t) ==
    /\ pc[t] = "done"
    /\ pc' = [pc EXCEPT ![t] = "idle"]
    /\ call' = [call EXCEPT ![t] = NoCall]
    /\ frame' = [frame EXCEPT ![t] = NoFrame]
    /\ wire' = [wire EXCEPT ![t] = <<>>]
    /\ events' = [events EXCEPT ![t] = <<>>]
    /\ outcome' = [outcome EXCEPT ![t] = Pending]
    /\ UNCHANGED client

(***************************************************************************)
(* Spec: one caller, every input.                                          *)
(***************************************************************************)
Callers == {"t1"}

Init == InitWith(Callers, Clients)

Next ==
    \/ \E t \in Callers : get_monitoring_snapshot(t)
    \/ \E t \in Callers : get_health(t)
    \/ \E t \in Callers, r \in ReplicasArgs : autoscale_plan(t, r)
    \/ \E t \in Callers, c \in ConfigArgs : deployment_plan(t, c)
    \/ \E t \in Callers, c \in ConfigArgs : deployment_apply(t, c)
    \/ \E t \in Callers : deployment_status(t)
    \/ \E t \in Callers, f \in Failures : TransportFailure(t, f)
    \/ \E t \in Callers, resp \in Responses : ServerResponse(t, resp)
    \/ \E t \in Callers : MockServerResponse(t)
    \/ \E t \in Callers : Finish(t)

Spec == Init /\ [][Next]_vars

(***************************************************************************)
(* SpecC: two callers share one client and their calls interleave.         *)
(***************************************************************************)
CallersC == {"t1", "t2"}

ClientsC ==
    { HyperionClient(<<Authority>>, None, DefaultTimeout),
      HyperionClient(<<Authority, "/">>, Some("test"), DefaultTimeout),
      HyperionClient(<<Authority, "/", "/">>, Some(""), DefaultTimeout) }

ReplicasArgsC == {None, Some(3)}

ConfigArgsC == {Dict1(W_desired_replicas, PyInt(6))}

FailuresC == {Failure("connect", "[Errno 111] Connection refused"), Failure("response", "timed out")}

ResponsesC ==
    { Response(200, "", <<>>, <<>>),
      Response(200, "bogus", EncodeUtf8(<<"{", "}">>), <<>>),
      Response(404, "", <<>>, <<>>),
      Response(302, "", <<>>, RedirectTarget) }

InitC == InitWith(CallersC, ClientsC)

NextC ==
    \/ \E t \in CallersC : get_monitoring_snapshot(t)
    \/ \E t \in CallersC : get_health(t)
    \/ \E t \in CallersC, r \in ReplicasArgsC : autoscale_plan(t, r)
    \/ \E t \in CallersC, c \in ConfigArgsC : deployment_plan(t, c)
    \/ \E t \in CallersC, c \in ConfigArgsC : deployment_apply(t, c)
    \/ \E t \in CallersC : deployment_status(t)
    \/ \E t \in CallersC, f \in FailuresC : TransportFailure(t, f)
    \/ \E t \in CallersC, resp \in ResponsesC : ServerResponse(t, resp)
    \/ \E t \in CallersC : MockServerResponse(t)
    \/ \E t \in CallersC : Finish(t)

SpecC == InitC /\ [][NextC]_vars

(***************************************************************************)
(* What the claims are stated in.                                          *)
(***************************************************************************)
Threads == DOMAIN pc

Done(t) == pc[t] = "done"

LastEvent(t) == events[t][Len(events[t])]

\* the call of t ended on a response of the server with this status
AnsweredWith(t, statuses) ==
    /\ Done(t)
    /\ LastEvent(t).type = "response"
    /\ LastEvent(t).status \in statuses

\* the call of t ended on a response with a status >= 400
Rejected(t) ==
    /\ Done(t)
    /\ LastEvent(t).type = "response"
    /\ LastEvent(t).status >= 400

IsAscii(bytes) == \A i \in DOMAIN bytes : bytes[i] < 128

\* the text of a body of ASCII bytes
AsciiText(bytes) == [i \in DOMAIN bytes |-> Chr(bytes[i])]

\* a JSON body: UTF-8 text that is one JSON value
IsJsonBody(bytes) == IsAscii(bytes) /\ json_loads(AsciiText(bytes)).ok

\* the verb and the path of each operation, from the interface table
VerbOf(op) ==
    IF op \in {"autoscale_plan", "deployment_plan", "deployment_apply"} THEN "POST" ELSE "GET"

PathOf(op) ==
    CASE op = "get_monitoring_snapshot" -> "/api/monitoring"
      [] op = "get_health" -> "/api/health"
      [] op = "autoscale_plan" -> "/api/autoscale/plan"
      [] op = "deployment_plan" -> "/api/deploy/plan"
      [] op = "deployment_apply" -> "/api/deploy/apply"
      [] op = "deployment_status" -> "/api/deploy/status"

\* url is base with its trailing slashes trimmed, then path
IsTrimmedJoin(url, base, path) ==
    \E n \in 0..Len(base) :
        /\ n = 0 \/ base[n] # "/"
        /\ \A i \in (n + 1)..Len(base) : base[i] = "/"
        /\ url = SubSeq(base, 1, n) \o <<path>>

IsClientError(o) == o.kind = "raise" /\ o.exc = "HyperionClientError"

\* the text of an "HTTP <status> for <verb> <path>: <detail>" message after
\* its colon and space
DetailOf(msg, status) == SubSeq(msg, Len(IntToChars(status)) + 7, Len(msg))

(***************************************************************************)
(* The claims.                                                             *)
(***************************************************************************)

\* C1: for each operation and every JSON body the server returns with status
\* 200, the call returns a result equal to the parsed JSON of that body.
C1_Status200ReturnsParsedJson ==
    \A t \in Threads :
        AnsweredWith(t, {200}) /\ IsJsonBody(LastEvent(t).body)
        => outcome[t] = Return(json_loads(AsciiText(LastEvent(t).body)).val)

\* C2: for every operation, a response with status 200 and an empty body
\* makes the call return an empty mapping and never an error.
C2_EmptyBodyReturnsEmptyMapping ==
    \A t \in Threads :
        AnsweredWith(t, {200}) /\ LastEvent(t).body = <<>>
        => outcome[t] = Return(EmptyDict)

C2_Witness ==
    \E t \in Threads :
        /\ AnsweredWith(t, {200})
        /\ LastEvent(t).body = <<>>
        /\ LastEvent(t).charset = "bogus"
        /\ call[t].op = "deployment_apply"
        /\ outcome[t].kind = "return"

\* C3: for every operation and every response status >= 400, the call fails
\* with HyperionClientError and returns no result, and the error message
\* contains the status code, the HTTP verb and the operation's path.
C3_RejectionIsClientError ==
    \A t \in Threads :
        Rejected(t)
        => /\ IsClientError(outcome[t])
           /\ IsInfix(IntToChars(LastEvent(t).status), outcome[t].msg)
           /\ IsInfix(<<VerbOf(call[t].op)>>, outcome[t].msg)
           /\ IsInfix(<<PathOf(call[t].op)>>, outcome[t].msg)

\* C4: a transport-level failure of a call (connection refused, DNS failure,
\* or timeout, including a timeout while waiting for the response) always
\* fails with HyperionClientError, whose message identifies the target address
\* and the underlying cause; no other error type reaches the caller.
C4_TransportFailureIsClientError ==
    \A t \in Threads :
        Done(t) /\ LastEvent(t).type = "failure"
        => /\ IsClientError(outcome[t])
           /\ IsInfix(frame[t].url, outcome[t].msg)
           /\ IsInfix(<<LastEvent(t).reason>>, outcome[t].msg)

C6_KeyHeaderIffConfigured ==
    \A t \in Threads : \A i \in DOMAIN wire[t] :
        /\ Header("Content-Type", "application/json") \in wire[t][i].headers
        /\ "X-API-Key" \in HeaderNames(wire[t][i]) <=> client.api_key # None
        /\ client.api_key # None
           => HeaderValue(wire[t][i], "X-API-Key") = The(client.api_key)

\* C6, amended: the request an operation builds carries Content-Type:
\* application/json, and a request that follows a redirect carries no
\* Content-Type; every request carries X-API-Key with the credential's value
\* exactly when a non-empty credential was configured, and has no X-API-Key
\* header when the credential is absent or empty.
C6_KeyHeaderIffNonEmpty ==
    \A t \in Threads : \A i \in DOMAIN wire[t] :
        /\ i = 1 => Header("Content-Type", "application/json") \in wire[t][i].headers
        /\ i > 1 => "Content-Type" \notin HeaderNames(wire[t][i])
        /\ "X-API-Key" \in HeaderNames(wire[t][i])
             <=> (client.api_key # None /\ client.api_key # Some(""))
        /\ "X-API-Key" \in HeaderNames(wire[t][i])
             => HeaderValue(wire[t][i], "X-API-Key") = The(client.api_key)
        /\ Cardinality(wire[t][i].headers) = Cardinality(HeaderNames(wire[t][i]))

C6_Witness ==
    \E t \in Threads :
        /\ Len(wire[t]) = 2
        /\ client.api_key = Some("test")
        /\ Header("X-API-Key", "test") \in wire[t][1].headers
        /\ Header("X-API-Key", "test") \in wire[t][2].headers

\* C7: autoscale_plan called without replicas sends a request whose body has
\* no replicas key, and autoscale_plan(r) sends the body {replicas: r} for
\* every integer r, 0 included; so against the server that answers scale-up
\* when replicas < 6, autoscale_plan(3) returns {decision: scale-up}.
C7_AutoscaleBody ==
    \A t \in Threads :
        call[t].op = "autoscale_plan"
        => /\ call[t].replicas = None => wire[t][1].data = None
           /\ call[t].replicas # None
              => /\ wire[t][1].data # None
                 /\ IsJsonBody(The(wire[t][1].data))
                 /\ json_loads(AsciiText(The(wire[t][1].data))).val
                      = Dict1(W_replicas, PyInt(The(call[t].replicas)))
           /\ call[t].replicas = Some(3)
              => AsciiText(The(wire[t][1].data))
                   = <<"{", "\"", "r", "e", "p", "l", "i", "c", "a", "s", "\"", ":", " ", "3", "}">>
           /\ ( /\ Done(t)
                /\ call[t].replicas = Some(3)
                /\ events[t] = <<_MockHandler(wire[t][1])>> )
              => outcome[t] = Return(Dict1(W_decision, PyStr(W_scale_up)))

C7_Witness ==
    \E t \in Threads :
        /\ Done(t)
        /\ call[t].op = "autoscale_plan"
        /\ call[t].replicas = Some(3)
        /\ events[t] = <<_MockHandler(wire[t][1])>>
        /\ outcome[t].kind = "return"

\* two calls with the same arguments and the same answers have the same
\* requests and the same outcome
SameCallsSameOutcome ==
    \A t1 \in Threads : \A t2 \in Threads :
        call[t1] = call[t2] /\ events[t1] = events[t2] /\ pc[t1] = pc[t2]
        => outcome[t1] = outcome[t2] /\ wire[t1] = wire[t2]

\* C8: across any sequence and any interleaving of calls from one or several
\* threads, whether they succeed or fail, the client's configuration (base
\* address, credential, timeout) is never changed, and the outcome of each
\* call depends only on that configuration, the call's own arguments and the
\* server's response to that call's request.
C8_ConfigurationNeverChanges ==
    [][client' = client /\ SameCallsSameOutcome']_vars

C8_Witness ==
    /\ Done("t1") /\ pc["t2"] = "inflight"
    /\ call["t1"].op = "autoscale_plan" /\ call["t2"].op = "get_health"
    /\ outcome["t1"].kind = "raise"
    /\ Len(wire["t2"]) = 2
    /\ client.base_url = <<Authority, "/", "/">>

\* C9: when the server answers with a status >= 400, the detail text in the
\* error message is the body text the server returned, or the HTTP reason
\* phrase whenever the error response has no body (an empty body included).
C9_DetailIsBodyOrReason ==
    \A t \in Threads :
        Rejected(t) /\ IsClientError(outcome[t])
        => DetailOf(outcome[t].msg, LastEvent(t).status)
             = IF LastEvent(t).body # <<>> THEN AsciiText(LastEvent(t).body)
               ELSE <<LastEvent(t).reason>>

\* C10: every call that returns normally returns a mapping from string keys
\* to JSON values, for every response body the server may send with a success
\* status (a JSON object, array, scalar or null, or text that is not JSON).
C10_ReturnsMapping ==
    \A t \in Threads :
        outcome[t].kind = "return" => outcome[t].value.kind = "dict"

====
